---- MODULE Spec2Model ----
(***************************************************************************)
(* Model of ldoc.py: the ldoc -> HTML pipeline (parse_ldoc) and its        *)
(* drivers (main, build_directory, build_file, build_html).                *)
(*                                                                         *)
(* A Python str is a sequence of symbols.  A symbol is either one          *)
(* character ("*", "=", "@", " ", "\n"), one word of \w characters ("a",   *)
(* "X", "PLATFORM", "linux") or one keyword / tag of the dialect or of the *)
(* generated HTML ("@include ", "@endif", "<li>", "</li>").  str.replace   *)
(* and the regular expressions of the source work on these sequences the   *)
(* way they work on characters: left to right, non-overlapping, "." is any *)
(* symbol but the newline, \w is a word symbol, \s is blank or newline.    *)
(***************************************************************************)
EXTENDS Integers, Sequences, FiniteSets, TLC

VARIABLES
    files,       \* the file system: path -> content
    args,        \* main: the parsed command line
    queue,       \* build_directory: the input files not built yet
    cur,         \* build_file: input_path and output_path
    mode,        \* who called parse_ldoc: "cli" (build_file) or "api"
    pc,          \* the statement the program is at
    source,      \* the caller's text, as handed to parse_ldoc
    text,        \* parse_ldoc: the document buffer
    base_dir,    \* parse_ldoc: base_dir
    vars_dict,   \* parse_ldoc: the variable table
    platform,    \* parse_ldoc: platform
    codeblocks,  \* parse_ldoc: the codeblock registry
    title        \* parse_ldoc: title

vars == <<files, args, queue, cur, mode, pc, source,
          text, base_dir, vars_dict, platform, codeblocks, title>>

(***************************************************************************)
(* Bounds.                                                                 *)
(***************************************************************************)
\* number of chunks (lines or blocks) of a document handed to parse_ldoc
MaxChunks == 2
\* longest buffer the include loop is followed to (a cyclic include grows
\* the buffer without bound)
MaxText == 12

(***************************************************************************)
(* Symbols.                                                                *)
(***************************************************************************)
NL == "\n"
SP == " "
None == <<"<None>">>
Whitespace == {SP, NL}
Upper == {"X", "Y", "PLATFORM", "OTHER", "T"}
Word == Upper \cup {"a", "b", "c", "d", "e", "m", "x", "y", "t", "u", "v",
                    "linux", "mac", "sh", "foo", "bar", "docs", "one", "two",
                    "build", "1", "2", "info", "danger", "k"}

\* str.lower() of one symbol
LowerSym(c) ==
    CASE c = "X" -> "x"
      [] c = "Y" -> "y"
      [] c = "T" -> "t"
      [] c = "PLATFORM" -> "platform"
      [] c = "OTHER" -> "other"
      [] OTHER -> c

(***************************************************************************)
(* Python str primitives.                                                  *)
(***************************************************************************)
\* s[i:j+1], empty when the range is empty
Slice(s, i, j) == IF i > j THEN <<>> ELSE SubSeq(s, i, j)

\* s.startswith(pat, i-1)
StartsWithAt(s, i, pat) ==
    /\ i + Len(pat) - 1 <= Len(s)
    /\ Slice(s, i, i + Len(pat) - 1) = pat

RECURSIVE Replace(_, _, _)
\* s.replace(old, new): every non-overlapping occurrence, left to right
Replace(s, old, new) ==
    IF old = <<>> \/ Len(s) < Len(old) THEN s
    ELSE IF StartsWithAt(s, 1, old)
         THEN new \o Replace(Slice(s, Len(old) + 1, Len(s)), old, new)
         ELSE <<s[1]>> \o Replace(Tail(s), old, new)

RECURSIVE LStrip(_)
LStrip(s) == IF s # <<>> /\ s[1] \in Whitespace THEN LStrip(Tail(s)) ELSE s

RECURSIVE RStrip(_)
RStrip(s) ==
    IF s # <<>> /\ s[Len(s)] \in Whitespace
    THEN RStrip(Slice(s, 1, Len(s) - 1)) ELSE s

\* s.strip()
Strip(s) == LStrip(RStrip(s))

RECURSIVE Lower(_)
\* s.lower()
Lower(s) == IF s = <<>> THEN <<>> ELSE <<LowerSym(s[1])>> \o Lower(Tail(s))

RECURSIVE Flatten(_)
\* "".join(parts)
Flatten(parts) ==
    IF parts = <<>> THEN <<>> ELSE parts[1] \o Flatten(Tail(parts))

RECURSIVE JoinWith(_, _)
\* sep.join(parts)
JoinWith(parts, sep) ==
    IF parts = <<>> THEN <<>>
    ELSE IF Len(parts) = 1 THEN parts[1]
    ELSE parts[1] \o sep \o JoinWith(Tail(parts), sep)

RECURSIVE Occurs(_, _)
\* old in s
Occurs(s, old) ==
    /\ Len(s) >= Len(old)
    /\ \/ StartsWithAt(s, 1, old)
       \/ Occurs(Tail(s), old)

(***************************************************************************)
(* Regular expression machinery.  A pattern is given by its matcher: the   *)
(* function  ends[i] = index of the last symbol of the match that starts   *)
(* at i, or 0 when the pattern does not match at i.  Every pattern of the  *)
(* source consumes at least one symbol.                                    *)
(***************************************************************************)
\* index of the last symbol of the line that holds position i (i itself is
\* not a newline): the greedy extent of ".+" started at i
RECURSIVE LineEnd(_, _)
LineEnd(s, i) ==
    IF i + 1 <= Len(s) /\ s[i + 1] # NL THEN LineEnd(s, i + 1) ELSE i

\* "^" under re.M
AtLineStart(s, i) == i = 1 \/ s[i - 1] = NL
\* "$" under re.M, after a match that ends at j
AtLineEnd(s, j) == j = Len(s) \/ s[j + 1] = NL

\* first position >= i that holds symbol c, or 0
RECURSIVE FindSym(_, _, _)
FindSym(s, c, i) ==
    IF i > Len(s) THEN 0
    ELSE IF s[i] = c THEN i ELSE FindSym(s, c, i + 1)

\* first position >= i that holds symbol c on the line of i, or 0
RECURSIVE FindSymInLine(_, _, _)
FindSymInLine(s, c, i) ==
    IF i > Len(s) \/ s[i] = NL THEN 0
    ELSE IF s[i] = c THEN i ELSE FindSymInLine(s, c, i + 1)

\* end of the maximal run of word symbols that starts at i (i - 1 if none)
RECURSIVE WordEnd(_, _)
WordEnd(s, i) ==
    IF i <= Len(s) /\ s[i] \in Word THEN WordEnd(s, i + 1) ELSE i - 1

\* end of the maximal run of whitespace that starts at i (i - 1 if none)
RECURSIVE SpaceEnd(_, _)
SpaceEnd(s, i) ==
    IF i <= Len(s) /\ s[i] \in Whitespace THEN SpaceEnd(s, i + 1) ELSE i - 1

RECURSIVE Matches(_, _)
\* re.finditer: the non-overlapping matches <<first, last>>, left to right
Matches(ends, i) ==
    IF i > Len(ends) THEN <<>>
    ELSE IF ends[i] > 0 THEN <<<<i, ends[i]>>>> \o Matches(ends, ends[i] + 1)
    ELSE Matches(ends, i + 1)

\* first match at or after position 1, or <<>> (re.search)
Search(ends) == LET ms == Matches(ends, 1) IN IF ms = <<>> THEN <<>> ELSE ms[1]

RECURSIVE Rebuild(_, _, _, _)
\* re.sub: s with match ms[k] replaced by reps[k]; i is the next position of
\* s to copy
Rebuild(s, ms, reps, i) ==
    IF ms = <<>> THEN Slice(s, i, Len(s))
    ELSE Slice(s, i, ms[1][1] - 1) \o reps[1]
         \o Rebuild(s, Tail(ms), Tail(reps), ms[1][2] + 1)

(***************************************************************************)
(* Ordered dictionaries (dict keeps insertion order): a sequence of        *)
(* <<key, value>> pairs with distinct keys.                                *)
(***************************************************************************)
Keys(d) == {d[k][1] : k \in DOMAIN d}
Lookup(d, key) == d[CHOOSE k \in DOMAIN d : d[k][1] = key][2]
\* d[key] = val
Put(d, key, val) ==
    IF key \in Keys(d)
    THEN [k \in DOMAIN d |-> IF d[k][1] = key THEN <<key, val>> ELSE d[k]]
    ELSE Append(d, <<key, val>>)

(***************************************************************************)
(* The file system.                                                        *)
(***************************************************************************)
\* os.path.join(base, p)
PathJoin(base, p) ==
    IF base = <<>> \/ (p # <<>> /\ p[1] = "/") THEN p
    ELSE IF base[Len(base)] = "/" THEN base \o p
    ELSE base \o <<"/">> \o p

\* os.path.dirname(p) / os.path.basename(p)
RECURSIVE LastSlash(_, _)
LastSlash(p, i) ==
    IF i = 0 THEN 0 ELSE IF p[i] = "/" THEN i ELSE LastSlash(p, i - 1)
DirName(p) == Slice(p, 1, LastSlash(p, Len(p)) - 1)
BaseName(p) == Slice(p, LastSlash(p, Len(p)) + 1, Len(p))

\* os.path.exists(p)
Exists(fs, p) == p \in DOMAIN fs

Dir == <<"<dir>">>
\* os.path.isdir(p)
IsDir(fs, p) == Exists(fs, p) /\ fs[p] = Dir
\* os.listdir(d)
ListDir(fs, d) == {BaseName(p) : p \in {q \in DOMAIN fs : q # <<>> /\ DirName(q) = d}}
\* name.endswith(".ldoc")
EndsWithLdoc(name) == name # <<>> /\ name[Len(name)] = ".ldoc"

\* the file system every run starts from: a documentation directory, the
\* page template and, in the working directory, files to include
InitialFiles ==
    (<<"docs">> :> Dir)
    @@ (<<"docs", "/", "one", ".ldoc">> :>
          <<"@if ", "PLATFORM", "=", "linux", NL, "x", NL, "@endif">>)
    @@ (<<"docs", "/", "two", ".ldoc">> :>
          <<"@title:", SP, "T", NL, "@include ", "a", NL,
            "@if ", "PLATFORM", "=", "mac", NL, "y", NL, "@endif">>)
    @@ (<<"docs", "/", "t", ".txt">> :> <<"t">>)
    @@ (<<"docs", "/", "a">> :> <<"u">>)
    @@ (<<"templates">> :> Dir)
    @@ (<<"templates", "/", "base", ".html">> :>
          <<"<title>", "{title}", "</title>", "{content}">>)
    @@ (<<"a">> :> <<"x">>)
    @@ (<<"a", "b">> :> <<"@include ", "a", "b">>)
    @@ (<<"a", "c">> :> <<"v">>)
    @@ (<<"c">> :> <<"@include ", "a">>)
    @@ (<<"d">> :> <<"y", NL, "@include ", "e">>)
    @@ (<<"e">> :> <<"@include ", "d">>)

TEMPLATE_PATH == <<"templates", "/", "base", ".html">>

(***************************************************************************)
(* parse_ldoc, stage 1: @include.                                          *)
(***************************************************************************)
\* include_pattern = r'@include (.+)'
IncludeEnds(s) ==
    [i \in 1..Len(s) |->
        IF s[i] = "@include " /\ i + 1 <= Len(s) /\ s[i + 1] # NL
        THEN LineEnd(s, i + 1) ELSE 0]

\* re.search(include_pattern, text) is not None
HasInclude(s) == Search(IncludeEnds(s)) # <<>>

\* the text that takes the place of match.group(0)
IncludeReplacement(fs, base, include_path) ==
    LET full_path == PathJoin(base, include_path)
    IN IF Exists(fs, full_path)
       THEN fs[full_path]
       ELSE <<"<div class='error'>Missing include: ">> \o include_path
            \o <<"</div>">>

\* one iteration of the while loop
IncludePass(fs, base, s) ==
    LET m == Search(IncludeEnds(s))
        group0 == Slice(s, m[1], m[2])
        include_path == Strip(Slice(s, m[1] + 1, m[2]))
    IN Replace(s, group0, IncludeReplacement(fs, base, include_path))

(***************************************************************************)
(* Stage 2: @title.                                                        *)
(***************************************************************************)
\* last position in i..j that is not a newline, or 0
RECURSIVE LastNonNL(_, _, _)
LastNonNL(s, i, j) ==
    IF j < i THEN 0 ELSE IF s[j] # NL THEN j ELSE LastNonNL(s, i, j - 1)

\* r'@title:\s*(.+)': where group 1 starts for a match at i, or 0.  \s* is
\* greedy and gives symbols back until ".+" finds one that is no newline.
TitleGroupStart(s, i) ==
    IF s[i] # "@title:" THEN 0
    ELSE LET j == SpaceEnd(s, i + 1) + 1
         IN IF j <= Len(s) THEN j ELSE LastNonNL(s, i + 1, j - 1)

TitleEnds(s) ==
    [i \in 1..Len(s) |->
        IF TitleGroupStart(s, i) > 0 THEN LineEnd(s, TitleGroupStart(s, i))
        ELSE 0]

\* title_match.group(1) if title_match else "Documentation"
ExtractTitle(s) ==
    LET m == Search(TitleEnds(s))
    IN IF m = <<>> THEN <<"Documentation">>
       ELSE Slice(s, TitleGroupStart(s, m[1]), m[2])

\* re.sub(r'@title:\s*.+', '', text)
StripTitles(s) ==
    LET ms == Matches(TitleEnds(s), 1)
    IN Rebuild(s, ms, [k \in DOMAIN ms |-> <<>>], 1)

(***************************************************************************)
(* Stage 3: @var NAME=VALUE and @NAME.                                     *)
(***************************************************************************)
\* r'@var (\w+)=(.+)'
VarEnds(s) ==
    [i \in 1..Len(s) |->
        LET w == WordEnd(s, i + 1)
        IN IF /\ s[i] = "@var "
              /\ w >= i + 1
              /\ w + 2 <= Len(s)
              /\ s[w + 1] = "="
              /\ s[w + 2] # NL
           THEN LineEnd(s, w + 2) ELSE 0]

RECURSIVE Declare(_, _, _)
\* for match in re.findall(...): vars_dict[match[0]] = match[1].strip()
Declare(d, s, ms) ==
    IF ms = <<>> THEN d
    ELSE LET w == WordEnd(s, ms[1][1] + 1)
             name == Slice(s, ms[1][1] + 1, w)
             value == Strip(Slice(s, w + 2, ms[1][2]))
         IN Declare(Put(d, name, value), s, Tail(ms))

\* the variable table after the declarations of s are recorded
CollectVars(d, s) == Declare(d, s, Matches(VarEnds(s), 1))

\* re.sub(r'@var \w+=.+', '', text)
StripVars(s) ==
    LET ms == Matches(VarEnds(s), 1)
    IN Rebuild(s, ms, [k \in DOMAIN ms |-> <<>>], 1)

\* text.replace(f"@{key}", val)
SubstituteOne(s, key, val) == Replace(s, <<"@">> \o key, val)

RECURSIVE SubstituteFrom(_, _, _)
\* for key, val in vars_dict.items(): ..., from entry k on
SubstituteFrom(s, d, k) ==
    IF k > Len(d) THEN s
    ELSE SubstituteFrom(SubstituteOne(s, d[k][1], d[k][2]), d, k + 1)

RECURSIVE SubstituteBackFrom(_, _, _)
SubstituteBackFrom(s, d, k) ==
    IF k < 1 THEN s
    ELSE SubstituteBackFrom(SubstituteOne(s, d[k][1], d[k][2]), d, k - 1)

\* SubstituteVars with the table walked from its last entry to its first
SubstituteVarsBackwards(s, d) == SubstituteBackFrom(s, d, Len(d))

SubstituteVars(s, d) == SubstituteFrom(s, d, 1)

(***************************************************************************)
(* Stage 4: @if VAR=VALUE ... @endif.                                      *)
(***************************************************************************)
\* r'@if (\w+)=(.+?)\n(.*?)@endif' with re.S: the newline that ends group 2
\* for a match at i, or 0.  Group 2 is lazy and holds at least one symbol.
IfNewline(s, i) ==
    LET w == WordEnd(s, i + 1)
    IN IF s[i] = "@if " /\ w >= i + 1 /\ w + 2 <= Len(s) /\ s[w + 1] = "="
       THEN FindSym(s, NL, w + 3) ELSE 0

IfEnds(s) ==
    [i \in 1..Len(s) |->
        IF IfNewline(s, i) > 0 THEN FindSym(s, "@endif", IfNewline(s, i) + 1)
        ELSE 0]

\* CondHolds without the test of the variable's name
CondHoldsAnyVar(plat, var, value) ==
    /\ plat # None /\ plat # <<>>
    /\ plat = value

\* platform and var == "PLATFORM" and platform == value
CondHolds(plat, var, value) ==
    /\ plat # None /\ plat # <<>>
    /\ var = <<"PLATFORM">>
    /\ plat = value

RECURSIVE ApplyConds(_, _, _, _)
\* for cond in re.findall(if_pattern, text): text = text.replace(...); src is
\* the text the matches ms were found in
ApplyConds(s, src, ms, plat) ==
    IF ms = <<>> THEN s
    ELSE LET i == ms[1][1]
             w == WordEnd(src, i + 1)
             n == IfNewline(src, i)
             var == Slice(src, i + 1, w)
             value == Slice(src, w + 2, n - 1)
             block == Slice(src, n + 1, ms[1][2] - 1)
             old == <<"@if ">> \o var \o <<"=">> \o value \o <<NL>> \o block
                    \o <<"@endif">>
         IN ApplyConds(Replace(s, old, IF CondHolds(plat, var, value)
                                       THEN block ELSE <<>>),
                       src, Tail(ms), plat)

Conditionals(s, plat) == ApplyConds(s, s, Matches(IfEnds(s), 1), plat)

(***************************************************************************)
(* Stage 5: @codeblock LANG NAME ... @endcodeblock and @usecode NAME.      *)
(***************************************************************************)
\* r'@codeblock (\w+) (\w+)\n(.*?)@endcodeblock' with re.S: the newline after
\* group 2 for a match at i, or 0
BlockNewline(s, i) ==
    LET w1 == WordEnd(s, i + 1)
        w2 == WordEnd(s, w1 + 2)
    IN IF /\ s[i] = "@codeblock "
          /\ w1 >= i + 1 /\ w1 + 1 <= Len(s) /\ s[w1 + 1] = SP
          /\ w2 >= w1 + 2 /\ w2 + 1 <= Len(s) /\ s[w2 + 1] = NL
       THEN w2 + 1 ELSE 0

BlockEnds(s) ==
    [i \in 1..Len(s) |->
        IF BlockNewline(s, i) > 0
        THEN FindSym(s, "@endcodeblock", BlockNewline(s, i) + 1) ELSE 0]

\* f'<pre><code class="{lang}">{code.strip()}</code></pre>'
Snippet(lang, code) ==
    <<"<pre><code class=\"">> \o lang \o <<"\">">> \o Strip(code)
    \o <<"</code></pre>">>

RECURSIVE Register(_, _, _)
\* for lang, name, code in re.findall(...): codeblocks[name] = ...
Register(d, s, ms) ==
    IF ms = <<>> THEN d
    ELSE LET i == ms[1][1]
             w1 == WordEnd(s, i + 1)
             n == BlockNewline(s, i)
             lang == Slice(s, i + 1, w1)
             name == Slice(s, w1 + 2, n - 1)
             code == Slice(s, n + 1, ms[1][2] - 1)
         IN Register(Put(d, name, Snippet(lang, code)), s, Tail(ms))

CollectBlocks(s) == Register(<<>>, s, Matches(BlockEnds(s), 1))

\* re.sub(block_pattern, '', text)
StripBlocks(s) ==
    LET ms == Matches(BlockEnds(s), 1)
    IN Rebuild(s, ms, [k \in DOMAIN ms |-> <<>>], 1)

\* text.replace(f"@usecode {name}", codeblocks[name])
UseOne(s, name, snippet) == Replace(s, <<"@usecode ">> \o name, snippet)

RECURSIVE UseFrom(_, _, _)
\* for name in codeblocks: ..., from entry k on
UseFrom(s, d, k) ==
    IF k > Len(d) THEN s
    ELSE UseFrom(UseOne(s, d[k][1], d[k][2]), d, k + 1)

UseCode(s, d) == UseFrom(s, d, 1)

(***************************************************************************)
(* Stage 6: table of contents.                                             *)
(***************************************************************************)
\* number of "#" symbols from i on
RECURSIVE HashRun(_, _)
HashRun(s, i) == IF i <= Len(s) /\ s[i] = "#" THEN 1 + HashRun(s, i + 1) ELSE 0

\* a line "#"*h + " " + text starts at i
HeadingAt(s, i, h) ==
    /\ AtLineStart(s, i)
    /\ HashRun(s, i) = h
    /\ i + h + 1 <= Len(s)
    /\ s[i + h] = SP
    /\ s[i + h + 1] # NL

\* r'^(#{1,3}) (.+)$' with re.M
TocEnds(s) ==
    [i \in 1..Len(s) |->
        IF \E h \in 1..3 : HeadingAt(s, i, h)
        THEN LineEnd(s, i + HashRun(s, i) + 1) ELSE 0]

\* heading_text.lower().replace(" ", "-")
Slug(heading) == Replace(Lower(heading), <<SP>>, <<"-">>)

\* str(level)
Digit(n) == CASE n = 1 -> "1" [] n = 2 -> "2" [] OTHER -> "3"

\* one <li> of the navigation fragment
TocEntry(level, heading) ==
    <<"<li class='level-", Digit(level), "'>", "<a href='#">> \o Slug(heading)
    \o <<"'>">> \o heading \o <<"</a>", "</li>">>

TocHtml(s) ==
    LET ms == Matches(TocEnds(s), 1)
    IN <<"<nav class='toc'><h3>Table of Contents</h3><ul>">>
       \o Flatten([k \in DOMAIN ms |->
              LET h == HashRun(s, ms[k][1])
              IN TocEntry(h, Slice(s, ms[k][1] + h + 1, ms[k][2]))])
       \o <<"</ul></nav>">>

\* text.replace("@toc", toc_html)
Toc(s) == Replace(s, <<"@toc">>, TocHtml(s))

(***************************************************************************)
(* Stage 7: syntax replacements, in the order of the source.               *)
(***************************************************************************)
\* r'^### (.+)$', r'^## (.+)$', r'^# (.+)$' with re.M, for h = 3, 2, 1
HeadingEnds(s, h) ==
    [i \in 1..Len(s) |->
        IF HeadingAt(s, i, h) THEN LineEnd(s, i + h + 1) ELSE 0]

HeadingRule(s, h) ==
    LET ms == Matches(HeadingEnds(s, h), 1)
    IN Rebuild(s, ms,
         [k \in DOMAIN ms |->
            LET g == Slice(s, ms[k][1] + h + 1, ms[k][2])
            IN <<"<h", Digit(h), " id=\"">> \o Slug(g) \o <<"\">">> \o g
               \o <<"</h", Digit(h), ">">>], 1)

Headings(s) == HeadingRule(HeadingRule(HeadingRule(s, 3), 2), 1)

\* cmd.replace('&', '&amp;').replace('<', '&lt;').replace('>', '&gt;')
Escape(cmd) ==
    Replace(Replace(Replace(cmd, <<"&">>, <<"&amp;">>), <<"<">>, <<"&lt;">>),
            <<">">>, <<"&gt;">>)

\* r'^@command: (.+)$' with re.M
CommandEnds(s) ==
    [i \in 1..Len(s) |->
        IF /\ s[i] = "@command: " /\ AtLineStart(s, i)
           /\ i + 1 <= Len(s) /\ s[i + 1] # NL
        THEN LineEnd(s, i + 1) ELSE 0]

\* command_replacer
CommandSnippet(cmd) ==
    <<"<pre><code class=\"command\">">> \o Escape(cmd) \o <<"</code></pre>">>

Command(s) ==
    LET ms == Matches(CommandEnds(s), 1)
    IN Rebuild(s, ms,
         [k \in DOMAIN ms |-> CommandSnippet(Slice(s, ms[k][1] + 1, ms[k][2]))],
         1)

\* first position >= i where pat starts, or 0
RECURSIVE FindSeq(_, _, _)
FindSeq(s, pat, i) ==
    IF i + Len(pat) - 1 > Len(s) THEN 0
    ELSE IF StartsWithAt(s, i, pat) THEN i ELSE FindSeq(s, pat, i + 1)

\* first position >= i where pat starts with no newline in i..(there - 1),
\* or 0: where a lazy ".*?" followed by pat stops
RECURSIVE FindSeqInLine(_, _, _)
FindSeqInLine(s, pat, i) ==
    IF i + Len(pat) - 1 > Len(s) THEN 0
    ELSE IF StartsWithAt(s, i, pat) THEN i
    ELSE IF s[i] = NL THEN 0
    ELSE FindSeqInLine(s, pat, i + 1)

\* the backtick character (written BQ) and the code fence
Backquote == "BQ"
Fence == <<Backquote, Backquote, Backquote>>

\* the fenced code pattern, three backticks (\w*)\n(.*?) three backticks,
\* with re.S: the newline after group 1, or 0
FenceNewline(s, i) ==
    LET w == WordEnd(s, i + 3)
    IN IF StartsWithAt(s, i, Fence) /\ w + 1 <= Len(s) /\ s[w + 1] = NL
       THEN w + 1 ELSE 0

FenceEnds(s) ==
    [i \in 1..Len(s) |->
        IF FenceNewline(s, i) > 0 /\ FindSeq(s, Fence, FenceNewline(s, i) + 1) > 0
        THEN FindSeq(s, Fence, FenceNewline(s, i) + 1) + 2 ELSE 0]

FencedCode(s) ==
    LET ms == Matches(FenceEnds(s), 1)
    IN Rebuild(s, ms,
         [k \in DOMAIN ms |->
            LET n == FenceNewline(s, ms[k][1])
            IN <<"<pre><code class=\"">> \o Slice(s, ms[k][1] + 3, n - 1)
               \o <<"\">">> \o Slice(s, n + 1, ms[k][2] - 3)
               \o <<"</code></pre>">>], 1)

\* the inline code pattern: backtick, ([^backtick]+), backtick
InlineEnds(s) ==
    [i \in 1..Len(s) |->
        IF s[i] = Backquote /\ FindSym(s, Backquote, i + 1) > i + 1
        THEN FindSym(s, Backquote, i + 1) ELSE 0]

InlineCode(s) ==
    LET ms == Matches(InlineEnds(s), 1)
    IN Rebuild(s, ms,
         [k \in DOMAIN ms |->
            <<"<code>">> \o Slice(s, ms[k][1] + 1, ms[k][2] - 1)
            \o <<"</code>">>], 1)

\* r'\*\*(.+?)\*\*'
BoldEnds(s) ==
    [i \in 1..Len(s) |->
        IF /\ StartsWithAt(s, i, <<"*", "*">>)
           /\ i + 2 <= Len(s) /\ s[i + 2] # NL
           /\ FindSeqInLine(s, <<"*", "*">>, i + 3) > 0
        THEN FindSeqInLine(s, <<"*", "*">>, i + 3) + 1 ELSE 0]

Bold(s) ==
    LET ms == Matches(BoldEnds(s), 1)
    IN Rebuild(s, ms,
         [k \in DOMAIN ms |->
            <<"<strong>">> \o Slice(s, ms[k][1] + 2, ms[k][2] - 2)
            \o <<"</strong>">>], 1)

\* r'\*(.+?)\*'
ItalicEnds(s) ==
    [i \in 1..Len(s) |->
        IF /\ s[i] = "*" /\ i + 1 <= Len(s) /\ s[i + 1] # NL
        THEN FindSeqInLine(s, <<"*">>, i + 2) ELSE 0]

Italic(s) ==
    LET ms == Matches(ItalicEnds(s), 1)
    IN Rebuild(s, ms,
         [k \in DOMAIN ms |->
            <<"<em>">> \o Slice(s, ms[k][1] + 1, ms[k][2] - 1) \o <<"</em>">>], 1)

\* r'^\-\-\-$' with re.M
RuleEnds(s) ==
    [i \in 1..Len(s) |->
        IF /\ AtLineStart(s, i) /\ StartsWithAt(s, i, <<"-", "-", "-">>)
           /\ AtLineEnd(s, i + 2)
        THEN i + 2 ELSE 0]

HorizontalRules(s) ==
    LET ms == Matches(RuleEnds(s), 1)
    IN Rebuild(s, ms, [k \in DOMAIN ms |-> <<"<hr>">>], 1)

\* r'^\- \[( |x|X)\] (.+)$' with re.M
TaskEnds(s) ==
    [i \in 1..Len(s) |->
        IF /\ AtLineStart(s, i)
           /\ StartsWithAt(s, i, <<"-", SP, "[">>)
           /\ i + 6 <= Len(s)
           /\ s[i + 3] \in {SP, "x", "X"}
           /\ s[i + 4] = "]"
           /\ s[i + 5] = SP
           /\ s[i + 6] # NL
        THEN LineEnd(s, i + 6) ELSE 0]

\* tasklist_replacer
TaskItem(mark, item) ==
    <<"<li class=\"task-item\">",
      IF LowerSym(mark) = "x" THEN "<input type=\"checkbox\" disabled checked>"
      ELSE "<input type=\"checkbox\" disabled>",
      SP>> \o item \o <<"</li>">>

TaskItems(s) ==
    LET ms == Matches(TaskEnds(s), 1)
    IN Rebuild(s, ms,
         [k \in DOMAIN ms |->
            TaskItem(s[ms[k][1] + 3], Slice(s, ms[k][1] + 6, ms[k][2]))], 1)

\* r'^\- (.+)$' with re.M
ItemEnds(s) ==
    [i \in 1..Len(s) |->
        IF /\ AtLineStart(s, i)
           /\ StartsWithAt(s, i, <<"-", SP>>)
           /\ i + 2 <= Len(s) /\ s[i + 2] # NL
        THEN LineEnd(s, i + 2) ELSE 0]

ListItems(s) ==
    LET ms == Matches(ItemEnds(s), 1)
    IN Rebuild(s, ms,
         [k \in DOMAIN ms |->
            <<"<li>">> \o Slice(s, ms[k][1] + 2, ms[k][2]) \o <<"</li>">>], 1)

\* r'(<li>.*?</li>)' with re.S
WrapEnds(s) ==
    [i \in 1..Len(s) |->
        IF s[i] = "<li>" THEN FindSym(s, "</li>", i + 1) ELSE 0]

WrapLists(s) ==
    LET ms == Matches(WrapEnds(s), 1)
    IN Rebuild(s, ms,
         [k \in DOMAIN ms |->
            <<"<ul>">> \o Slice(s, ms[k][1], ms[k][2]) \o <<"</ul>">>], 1)

\* r'\[(.*?)\]\((.*?)\)': the "]" that ends group 1 for a match at i, or 0
LinkMiddle(s, i) ==
    IF s[i] = "[" THEN FindSeqInLine(s, <<"]", "(">>, i + 1) ELSE 0

LinkEnds(s) ==
    [i \in 1..Len(s) |->
        IF LinkMiddle(s, i) > 0
        THEN FindSeqInLine(s, <<")">>, LinkMiddle(s, i) + 2) ELSE 0]

Links(s) ==
    LET ms == Matches(LinkEnds(s), 1)
    IN Rebuild(s, ms,
         [k \in DOMAIN ms |->
            LET b == LinkMiddle(s, ms[k][1])
            IN <<"<a href=\"">> \o Slice(s, b + 2, ms[k][2] - 1) \o <<"\">">>
               \o Slice(s, ms[k][1] + 1, b - 1) \o <<"</a>">>], 1)

Quote == "\""

\* r'@image: (.+?) "(.*?)"': the blank that ends group 1, or 0
ImageMiddle(s, i) ==
    IF s[i] = "@image: " /\ i + 1 <= Len(s) /\ s[i + 1] # NL
    THEN FindSeqInLine(s, <<SP, Quote>>, i + 2) ELSE 0

ImageEnds(s) ==
    [i \in 1..Len(s) |->
        IF ImageMiddle(s, i) > 0
        THEN FindSeqInLine(s, <<Quote>>, ImageMiddle(s, i) + 2) ELSE 0]

Images(s) ==
    LET ms == Matches(ImageEnds(s), 1)
    IN Rebuild(s, ms,
         [k \in DOMAIN ms |->
            LET b == ImageMiddle(s, ms[k][1])
            IN <<"<img src=\"">> \o Slice(s, ms[k][1] + 1, b - 1)
               \o <<"\" alt=\"">> \o Slice(s, b + 2, ms[k][2] - 1)
               \o <<"\">">>], 1)

\* a pattern "KEYWORD(.+)": r'@video: (.+)', r'@note: (.+)', ...
LineDirectiveEnds(s, keyword) ==
    [i \in 1..Len(s) |->
        IF s[i] = keyword /\ i + 1 <= Len(s) /\ s[i + 1] # NL
        THEN LineEnd(s, i + 1) ELSE 0]

\* re.sub(r'KEYWORD(.+)', r'OPEN\1CLOSE', text)
LineDirective(s, keyword, open, close) ==
    LET ms == Matches(LineDirectiveEnds(s, keyword), 1)
    IN Rebuild(s, ms,
         [k \in DOMAIN ms |->
            open \o Slice(s, ms[k][1] + 1, ms[k][2]) \o close], 1)

Videos(s) ==
    LineDirective(s, "@video: ", <<"<iframe src=\"">>,
                  <<"\" frameborder=\"0\" allowfullscreen></iframe>">>)

Media(s) == Videos(Images(s))

\* note, warning, info, tip, todo, in this order
Callouts(s) ==
    LET s1 == LineDirective(s, "@note: ", <<"<div class=\"note\">">>, <<"</div>">>)
        s2 == LineDirective(s1, "@warning: ", <<"<div class=\"warning\">">>,
                            <<"</div>">>)
        s3 == LineDirective(s2, "@info: ", <<"<div class=\"info\">">>, <<"</div>">>)
        s4 == LineDirective(s3, "@tip: ", <<"<div class=\"tip\">">>, <<"</div>">>)
    IN LineDirective(s4, "@todo: ", <<"<div class=\"todo\">", "TODO: ">>,
                     <<"</div>">>)

\* r'@alert (\w+)\n(.*?)@endalert' with re.S: the newline after group 1, or 0
AlertNewline(s, i) ==
    LET w == WordEnd(s, i + 1)
    IN IF s[i] = "@alert " /\ w >= i + 1 /\ w + 1 <= Len(s) /\ s[w + 1] = NL
       THEN w + 1 ELSE 0

AlertEnds(s) ==
    [i \in 1..Len(s) |->
        IF AlertNewline(s, i) > 0
        THEN FindSym(s, "@endalert", AlertNewline(s, i) + 1) ELSE 0]

\* alert_replacer
AlertBox(alert_type, content) ==
    LET allowed == {<<"info">>, <<"warning">>, <<"error">>, <<"success">>}
        css_class == IF Strip(alert_type) \in allowed THEN Strip(alert_type)
                     ELSE <<"info">>
    IN <<"<div class=\"alert ">> \o css_class \o <<"\">">> \o Strip(content)
       \o <<"</div>">>

Alerts(s) ==
    LET ms == Matches(AlertEnds(s), 1)
    IN Rebuild(s, ms,
         [k \in DOMAIN ms |->
            LET n == AlertNewline(s, ms[k][1])
            IN AlertBox(Slice(s, ms[k][1] + 1, n - 1),
                        Slice(s, n + 1, ms[k][2] - 1))], 1)

\* r'@badge: (\w+)\|(\w+)\|(\w+)'
BadgeEnds(s) ==
    [i \in 1..Len(s) |->
        LET w1 == WordEnd(s, i + 1)
            w2 == WordEnd(s, w1 + 2)
            w3 == WordEnd(s, w2 + 2)
        IN IF /\ s[i] = "@badge: "
              /\ w1 >= i + 1 /\ w1 + 1 <= Len(s) /\ s[w1 + 1] = "|"
              /\ w2 >= w1 + 2 /\ w2 + 1 <= Len(s) /\ s[w2 + 1] = "|"
              /\ w3 >= w2 + 2
           THEN w3 ELSE 0]

Badges(s) ==
    LET ms == Matches(BadgeEnds(s), 1)
    IN Rebuild(s, ms,
         [k \in DOMAIN ms |->
            LET w1 == WordEnd(s, ms[k][1] + 1)
                w2 == WordEnd(s, w1 + 2)
            IN <<"<span class=\"badge ">> \o Slice(s, w2 + 2, ms[k][2])
               \o <<"\">">> \o Slice(s, ms[k][1] + 1, w1) \o <<":", SP>>
               \o Slice(s, w1 + 2, w2) \o <<"</span>">>], 1)

RECURSIVE Split(_, _)
\* s.split(sep) for a one-symbol separator
Split(s, sep) ==
    LET j == FindSym(s, sep, 1)
    IN IF j = 0 THEN <<s>>
       ELSE <<Slice(s, 1, j - 1)>> \o Split(Slice(s, j + 1, Len(s)), sep)

\* s.splitlines()
SplitLines(s) ==
    IF s = <<>> THEN <<>>
    ELSE IF s[Len(s)] = NL THEN Split(Slice(s, 1, Len(s) - 1), NL)
    ELSE Split(s, NL)

\* r'@table:\s*(.*?)@endtable' with re.S
TableEnds(s) ==
    [i \in 1..Len(s) |->
        IF s[i] = "@table:" THEN FindSym(s, "@endtable", i + 1) ELSE 0]

\* one <tr> of table_replacer
TableRow(row, cell, endcell) ==
    LET cols == Split(row, "|")
    IN <<"<tr>">>
       \o Flatten([c \in DOMAIN cols |->
                     <<cell>> \o Strip(cols[c]) \o <<endcell>>])
       \o <<"</tr>">>

\* table_replacer, on match.group(1)
TableHtml(body) ==
    LET rows == SplitLines(Strip(body))
    IN <<"<table>">>
       \o Flatten([r \in DOMAIN rows |->
                     IF r = 1 THEN TableRow(rows[r], "<th>", "</th>")
                     ELSE TableRow(rows[r], "<td>", "</td>")])
       \o <<"</table>">>

Tables(s) ==
    LET ms == Matches(TableEnds(s), 1)
    IN Rebuild(s, ms,
         [k \in DOMAIN ms |->
            TableHtml(Slice(s, SpaceEnd(s, ms[k][1] + 1) + 1, ms[k][2] - 1))], 1)

(***************************************************************************)
(* Stage 8: paragraphs.                                                    *)
(***************************************************************************)
RECURSIVE NewlineRunEnd(_, _)
NewlineRunEnd(s, i) ==
    IF i + 1 <= Len(s) /\ s[i + 1] = NL THEN NewlineRunEnd(s, i + 1) ELSE i

\* r'\n{2,}'
BreakEnds(s) ==
    [i \in 1..Len(s) |->
        IF s[i] = NL /\ NewlineRunEnd(s, i) > i THEN NewlineRunEnd(s, i) ELSE 0]

\* re.sub(r'\n{2,}', '</p><p>', text); text = f"<p>{text}</p>"
Paragraphs(s) ==
    LET ms == Matches(BreakEnds(s), 1)
    IN <<"<p>">> \o Rebuild(s, ms, [k \in DOMAIN ms |-> <<"</p>", "<p>">>], 1)
       \o <<"</p>">>

(***************************************************************************)
(* build_html.                                                             *)
(***************************************************************************)
\* template.replace("{title}", title).replace("{content}", content)
BuildHtml(fs, content, ttl) ==
    Replace(Replace(fs[TEMPLATE_PATH], <<"{title}">>, ttl), <<"{content}">>,
            content)

(***************************************************************************)
(* The calls of parse_ldoc a library caller makes: documents of at most    *)
(* MaxChunks chunks (a chunk is a line or a block), one family per group   *)
(* of directives, with the platform and the pre-seeded variable table.     *)
(***************************************************************************)
RECURSIVE ChunkSeqs(_, _)
\* the sequences of 1..n chunks
ChunkSeqs(chunks, n) ==
    IF n = 0 THEN {}
    ELSE {<<c>> : c \in chunks}
         \cup {Append(cs, c) : cs \in ChunkSeqs(chunks, n - 1), c \in chunks}

\* the documents made of 1..MaxChunks chunks, one per line
Documents(chunks) == {JoinWith(cs, <<NL>>) : cs \in ChunkSeqs(chunks, MaxChunks)}

IfBlock(var, value, body) ==
    <<"@if ", var, "=", value, NL>> \o body \o <<NL, "@endif">>

IncludeChunks ==
    { <<"@include ", "a">>, <<"@include ", "a", "b">>, <<"@include ", "a", "c">>,
      <<"@include ", "c">>, <<"@include ", "d">>, <<"@include ", "m">>, <<"t">> }

VarChunks ==
    { <<"@var ", "X", "=", "1">>, <<"@var ", "X", "=", "@", "Y">>,
      <<"@var ", "Y", "=", "2">>,
      <<"@", "X">>, <<"@", "Y">>, <<"@", "X", "Y">> }

CondChunks ==
    { IfBlock("PLATFORM", "linux", <<"x">>),
      IfBlock("PLATFORM", "mac", <<"y">>),
      IfBlock("OTHER", "linux", <<"x">>),
      IfBlock("PLATFORM", "mac", <<"@var ", "X", "=", "1">>),
      IfBlock("PLATFORM", "mac",
              <<"@var ", "X", "=", "1", NL, "@var ", "X", "Y", "=", "2">>),
      IfBlock("PLATFORM", "mac", <<"@title:", SP, "T">>),
      <<"@", "X", "Y">>, <<"@", "X">>, <<"t">> }

BlockChunks ==
    { <<"@codeblock ", "sh", SP, "foo", NL, "x", NL, "@endcodeblock">>,
      <<"@codeblock ", "sh", SP, "foo", "bar", NL, "y", NL, "@endcodeblock">>,
      <<"@usecode ", "foo">>, <<"@usecode ", "foo", "bar">>,
      <<"@usecode ", "bar">> }

ListChunks ==
    { <<"-", SP, "a">>, <<"-", SP, "b">>, <<"-", SP, "[", "x", "]", SP, "a">>,
      <<"-", SP, "[", SP, "]", SP, "b">>, <<"t">>, <<>> }

InlineChunks ==
    { <<"@command: ", "a", SP, "*", "b", "*">>,
      <<"@command: ", "a", "<", "b", "&", "c">>,
      <<"@command: ", Backquote, "a", Backquote>>,
      <<"@command: ", "[", "a", "]", "(", "b", ")">>,
      <<"*", "*", "a", "*", "*">>, <<"*", "a", "*">>,
      <<Backquote, "a", Backquote>>, <<"[", "a", "]", "(", "b", ")">>,
      <<"#", SP, "T", SP, "x">> }

\* one document per remaining directive
OtherDocuments ==
    { <<"@toc", NL, "#", SP, "T", SP, "x", NL, "#", "#", SP, "y", NL,
        "#", "#", "#", SP, "X">>,
      <<"#", "#", "#", "#", SP, "x", NL, "-", "-", "-", NL, "-", "-", "-", "-">>,
      Fence \o <<"sh", NL, "a", "<", "b", NL>> \o Fence,
      <<"@image: ", "u", SP, Quote, "a", SP, "b", Quote, NL, "@video: ", "u">>,
      <<"@note: ", "a", NL, "@warning: ", "b", NL, "@info: ", "c", NL,
        "@tip: ", "d", NL, "@todo: ", "e">>,
      <<"@alert ", "danger", NL, "a", NL, "@endalert", NL,
        "@alert ", "info", NL, "b", NL, "@endalert">>,
      <<"@badge: ", "a", "|", "b", "|", "c">>,
      <<"@table:", NL, "a", "|", "b", NL, "1", "|", "2", NL, "@endtable">>,
      <<"@title:", SP, "T", NL, "@title:", SP, "x", NL, NL, "t">>,
      <<"@title:", SP, NL, "t">> }

Platforms == {None, <<>>, <<"linux">>, <<"mac">>}

\* pre-seeded variable tables
Seeds ==
    { <<>>,
      << <<<<"Y">>, <<"2">>>> >>,
      << <<<<"X">>, <<"@", "Y">>>> >> }

Call(doc, plat, seed) == [text |-> doc, platform |-> plat, vars_dict |-> seed]

Calls ==
    {Call(d, None, <<>>) :
        d \in Documents(IncludeChunks) \cup Documents(BlockChunks)
              \cup Documents(ListChunks) \cup Documents(InlineChunks)
              \cup OtherDocuments}
    \cup {Call(d, None, sd) : d \in Documents(VarChunks), sd \in Seeds}
    \cup {Call(d, p, <<>>) : d \in Documents(CondChunks), p \in Platforms}

(***************************************************************************)
(* The program.                                                            *)
(***************************************************************************)
NoArgs == [input |-> <<>>, output |-> <<>>, platform |-> None]
NoFile == [input_path |-> <<>>, output_path |-> <<>>]

Init ==
    /\ files = InitialFiles
    /\ args = NoArgs
    /\ queue = {}
    /\ cur = NoFile
    /\ mode = "none"
    /\ pc = "start"
    /\ source = <<>>
    /\ text = <<>>
    /\ base_dir = <<>>
    /\ vars_dict = <<>>
    /\ platform = None
    /\ codeblocks = <<>>
    /\ title = <<>>

\* os.makedirs(d) if it does not exist
MakeDirs(fs, d) == IF Exists(fs, d) THEN fs ELSE (d :> Dir) @@ fs

\* main: parse the command line and start build_directory or build_file
Main ==
    /\ pc = "start"
    /\ \E input \in {<<"docs">>, <<"docs", "/", "one", ".ldoc">>,
                     <<"docs", "/", "two", ".ldoc">>},
          plat \in {None, <<"linux">>, <<"mac">>} :
          /\ args' = [input |-> input, output |-> <<"build">>, platform |-> plat]
          /\ files' = MakeDirs(files, <<"build">>)
          /\ queue' = IF IsDir(files, input)
                      THEN {PathJoin(input, f) :
                              f \in {g \in ListDir(files, input) : EndsWithLdoc(g)}}
                      ELSE {input}
    /\ mode' = "cli"
    /\ pc' = "build"
    /\ UNCHANGED <<cur, source, text, base_dir, vars_dict, platform, codeblocks,
                   title>>

\* build_file, up to its call parse_ldoc(text, base_dir); in build_directory
\* the files come in the order of os.listdir, which is arbitrary
BuildFile ==
    /\ pc = "build"
    /\ \E input_path \in queue :
          /\ cur' = [input_path |-> input_path,
                     output_path |->
                        PathJoin(args.output,
                                 Replace(BaseName(input_path), <<".ldoc">>,
                                         <<".html">>))]
          /\ source' = files[input_path]
          /\ text' = files[input_path]
          /\ base_dir' = DirName(input_path)
          /\ queue' = queue \ {input_path}
    /\ vars_dict' = <<>>
    /\ platform' = None
    /\ codeblocks' = <<>>
    /\ title' = <<>>
    /\ pc' = "include"
    /\ UNCHANGED <<files, args, mode>>

\* a library caller's parse_ldoc(text, None, vars_dict, platform)
CallParse ==
    /\ pc = "start"
    /\ \E call \in Calls :
          /\ source' = call.text
          /\ text' = call.text
          /\ vars_dict' = call.vars_dict
          /\ platform' = call.platform
    /\ base_dir' = <<>>
    /\ codeblocks' = <<>>
    /\ title' = <<>>
    /\ mode' = "api"
    /\ pc' = "include"
    /\ UNCHANGED <<files, args, queue, cur>>

\* one iteration of the include loop
IncludeStep ==
    /\ pc = "include"
    /\ HasInclude(text)
    /\ Len(IncludePass(files, base_dir, text)) <= MaxText
    /\ text' = IncludePass(files, base_dir, text)
    /\ UNCHANGED <<files, args, queue, cur, mode, pc, source, base_dir,
                   vars_dict, platform, codeblocks, title>>

\* the include loop ends
IncludeDone ==
    /\ pc = "include"
    /\ ~HasInclude(text)
    /\ pc' = "title"
    /\ UNCHANGED <<files, args, queue, cur, mode, source, text, base_dir,
                   vars_dict, platform, codeblocks, title>>

Metadata ==
    /\ pc = "title"
    /\ title' = ExtractTitle(text)
    /\ text' = StripTitles(text)
    /\ pc' = "vars"
    /\ UNCHANGED <<files, args, queue, cur, mode, source, base_dir, vars_dict,
                   platform, codeblocks>>

Variables ==
    /\ pc = "vars"
    /\ vars_dict' = CollectVars(vars_dict, text)
    /\ text' = SubstituteVars(StripVars(text), vars_dict')
    /\ pc' = "if"
    /\ UNCHANGED <<files, args, queue, cur, mode, source, base_dir, platform,
                   codeblocks, title>>

Conditional ==
    /\ pc = "if"
    /\ text' = Conditionals(text, platform)
    /\ pc' = "codeblock"
    /\ UNCHANGED <<files, args, queue, cur, mode, source, base_dir, vars_dict,
                   platform, codeblocks, title>>

Codeblocks ==
    /\ pc = "codeblock"
    /\ codeblocks' = CollectBlocks(text)
    /\ text' = UseCode(StripBlocks(text), codeblocks')
    /\ pc' = "toc"
    /\ UNCHANGED <<files, args, queue, cur, mode, source, base_dir, vars_dict,
                   platform, title>>

\* a stage that rewrites the buffer only
Rewrite(from, to, result) ==
    /\ pc = from
    /\ text' = result
    /\ pc' = to
    /\ UNCHANGED <<files, args, queue, cur, mode, source, base_dir, vars_dict,
                   platform, codeblocks, title>>

TableOfContents == Rewrite("toc", "headings", Toc(text))
HeadingRules == Rewrite("headings", "command", Headings(text))
CommandRule == Rewrite("command", "code", Command(text))
CodeRules == Rewrite("code", "emphasis", InlineCode(FencedCode(text)))
EmphasisRules == Rewrite("emphasis", "hr", Italic(Bold(text)))
RuleRule == Rewrite("hr", "lists", HorizontalRules(text))
ListRules == Rewrite("lists", "links", WrapLists(ListItems(TaskItems(text))))
LinkRule == Rewrite("links", "media", Links(text))
MediaRules == Rewrite("media", "callouts", Media(text))
CalloutRules == Rewrite("callouts", "alerts", Callouts(text))
AlertRule == Rewrite("alerts", "badges", Alerts(text))
BadgeRule == Rewrite("badges", "tables", Badges(text))
TableRule == Rewrite("tables", "paragraphs", Tables(text))
ParagraphRule == Rewrite("paragraphs", "return", Paragraphs(text))

\* build_file after parse_ldoc returned: build_html, write the output, and
\* the next file of build_directory
WriteOutput ==
    /\ pc = "return"
    /\ mode = "cli"
    /\ files' = (cur.output_path :> BuildHtml(files, text, title)) @@ files
    /\ pc' = IF queue = {} THEN "exit" ELSE "build"
    /\ UNCHANGED <<args, queue, cur, mode, source, text, base_dir, vars_dict,
                   platform, codeblocks, title>>

Next ==
    \/ Main
    \/ BuildFile
    \/ CallParse
    \/ IncludeStep
    \/ IncludeDone
    \/ Metadata
    \/ Variables
    \/ Conditional
    \/ Codeblocks
    \/ TableOfContents
    \/ HeadingRules
    \/ CommandRule
    \/ CodeRules
    \/ EmphasisRules
    \/ RuleRule
    \/ ListRules
    \/ LinkRule
    \/ MediaRules
    \/ CalloutRules
    \/ AlertRule
    \/ BadgeRule
    \/ TableRule
    \/ ParagraphRule
    \/ WriteOutput

Spec == Init /\ [][Next]_vars

(***************************************************************************)
(* What the claims speak of.                                               *)
(***************************************************************************)
\* number of positions of s that satisfy hit, a function on 1..Len(s)
RECURSIVE CountFrom(_, _)
CountFrom(hit, i) ==
    IF i > Len(hit) THEN 0
    ELSE (IF hit[i] THEN 1 ELSE 0) + CountFrom(hit, i + 1)

\* number of places where pat starts in s
CountOccurrences(s, pat) ==
    CountFrom([i \in 1..Len(s) |-> StartsWithAt(s, i, pat)], 1)

\* number of tokens  lead NAME  of s, a token being the symbol lead and the
\* whole run of word symbols after it: the references @NAME for lead "@",
\* the usage sites for lead "@usecode "
CountTokens(s, lead, name) ==
    CountFrom([i \in 1..Len(s) |->
                 /\ s[i] = lead
                 /\ Slice(s, i + 1, WordEnd(s, i + 1)) = name], 1)

\* the names of the tokens  lead NAME  of s
TokenNames(s, lead) ==
    {Slice(s, i + 1, WordEnd(s, i + 1)) :
        i \in {j \in 1..Len(s) : s[j] = lead /\ WordEnd(s, j + 1) > j}}

(***************************************************************************)
(* C1.  A document whose conditional blocks are well formed and not        *)
(* nested, and what the Conditional Evaluator is to make of it: read left  *)
(* to right, every block gives its body when VAR is PLATFORM and the       *)
(* platform is VALUE, and nothing otherwise.                               *)
(***************************************************************************)
RECURSIVE NonNested(_)
NonNested(s) ==
    LET i == FindSym(s, "@if ", 1)
        n == FindSym(s, NL, i + 1)
        e == FindSym(s, "@endif", 1)
    IN IF i = 0 THEN e = 0
       ELSE /\ i + 2 <= Len(s) /\ s[i + 1] \in Word /\ s[i + 2] = "="
            /\ n > i + 3
            /\ e > n
            /\ FindSym(Slice(s, i + 1, e - 1), "@if ", 1) = 0
            /\ NonNested(Slice(s, e + 1, Len(s)))

RECURSIVE KeptBodies(_, _)
KeptBodies(s, plat) ==
    LET i == FindSym(s, "@if ", 1)
        n == FindSym(s, NL, i + 1)
        e == FindSym(s, "@endif", 1)
        kept == /\ s[i + 1] = "PLATFORM"
                /\ plat # None
                /\ plat = Slice(s, i + 3, n - 1)
    IN IF i = 0 THEN s
       ELSE Slice(s, 1, i - 1)
            \o (IF kept THEN Slice(s, n + 1, e - 1) ELSE <<>>)
            \o KeptBodies(Slice(s, e + 1, Len(s)), plat)

\* what a step has to satisfy for C1_ConditionalKeepsOrDrops
ConditionalKeepsOrDropsStep ==
    (pc = "if" /\ NonNested(text)) =>
         /\ text' = KeptBodies(text, platform)
         /\ FindSym(text', "@if ", 1) = 0
         /\ FindSym(text', "@endif", 1) = 0

\* C1: the Conditional Evaluator replaces every non-nested block
\* @if VAR=VALUE ... @endif by its body when VAR is PLATFORM and the
\* caller's platform is VALUE, and by nothing in every other case (another
\* platform, no platform, another VAR); no @if or @endif is left.
C1_ConditionalKeepsOrDrops == [][ConditionalKeepsOrDropsStep]_vars

\* a kept block, a dropped block with another platform and a block on
\* another variable, evaluated for platform linux
C1_Witness ==
    /\ pc = "codeblock"
    /\ platform = <<"linux">>
    /\ source = JoinWith(<<IfBlock("PLATFORM", "linux", <<"x">>),
                           IfBlock("OTHER", "linux", <<"x">>)>>, <<NL>>)
    /\ text = <<"x", NL, NL>>

(***************************************************************************)
(* C2.                                                                     *)
(***************************************************************************)
\* C2: in a build started by main with --platform P, the platform that
\* reaches the Conditional Evaluator is P.
C2_PlatformReachesEvaluator ==
    (mode = "cli" /\ pc = "if") => platform = args.platform

(***************************************************************************)
(* C3.                                                                     *)
(***************************************************************************)
\* what a step has to satisfy for C3_UnknownReferencesStay
UnknownReferencesStayStep ==
    pc = "vars" =>
         \A name \in TokenNames(StripVars(text), "@") \ Keys(vars_dict') :
            CountTokens(text', "@", name)
               >= CountTokens(StripVars(text), "@", name)

\* C3: the Variable Engine leaves every reference token @NAME whose NAME is
\* no key of the variable table in the buffer: after the stage there are as
\* many of them as the buffer held once the declarations were stripped.
C3_UnknownReferencesStay == [][UnknownReferencesStayStep]_vars

(***************************************************************************)
(* C4, C5.  The include directives of a text, each with its own path, and  *)
(* the expansion that replaces each directive, where it stands, by the     *)
(* file at its own path or by the marker.                                  *)
(***************************************************************************)
\* passes of the expansion that are followed
ExpandFuel == 8

\* the paths of the include directives of s
IncludePaths(s) ==
    LET ms == Matches(IncludeEnds(s), 1)
    IN {Strip(Slice(s, ms[k][1] + 1, ms[k][2])) : k \in DOMAIN ms}

\* the first directive of s replaced where it stands
ExpandFirst(fs, base, s) ==
    LET m == Search(IncludeEnds(s))
    IN Slice(s, 1, m[1] - 1)
       \o IncludeReplacement(fs, base, Strip(Slice(s, m[1] + 1, m[2])))
       \o Slice(s, m[2] + 1, Len(s))

RECURSIVE Expand(_, _, _, _)
Expand(fs, base, s, fuel) ==
    IF fuel = 0 \/ ~HasInclude(s) THEN s
    ELSE Expand(fs, base, ExpandFirst(fs, base, s), fuel - 1)

\* the expansion of s ends
Expands(fs, base, s) == ~HasInclude(Expand(fs, base, s, ExpandFuel))

\* what a step has to satisfy for C4_EveryIncludeByItsOwnPath
EveryIncludeByItsOwnPathStep ==
    (pc = "include" /\ Expands(files, base_dir, text)) =>
         Expand(files, base_dir, text', ExpandFuel)
            = Expand(files, base_dir, text, ExpandFuel)

\* C4: when the include loop finishes, every directive @include <path> has
\* been replaced by the file at its own path, or by the marker that names
\* its own path: no pass of the loop changes what the text expands to.
C4_EveryIncludeByItsOwnPath == [][EveryIncludeByItsOwnPathStep]_vars

\* the existing files the directives of the files in paths lead to
Included(fs, base, paths) ==
    UNION {IncludePaths(fs[PathJoin(base, q)]) :
             q \in {r \in paths : Exists(fs, PathJoin(base, r))}}

RECURSIVE Reachable(_, _, _)
Reachable(fs, base, paths) ==
    LET more == paths \cup Included(fs, base, paths)
    IN IF more = paths THEN paths ELSE Reachable(fs, base, more)

\* an existing file reachable from s includes itself, directly or through
\* other existing files
ReachesCycle(fs, base, s) ==
    \E q \in Reachable(fs, base, IncludePaths(s)) :
        /\ Exists(fs, PathJoin(base, q))
        /\ q \in Reachable(fs, base, Included(fs, base, {q}))

\* C5: the include loop never ends for a document from which an existing
\* file is reachable that includes itself, directly or through a cycle.
C5_CycleNeverTerminates ==
    ReachesCycle(files, base_dir, source) => pc \in {"start", "include"}

(***************************************************************************)
(* C6.                                                                     *)
(***************************************************************************)
\* what a step has to satisfy for C6_UsageSitesByDeclaration
UsageSitesByDeclarationStep ==
    pc = "codeblock" =>
         /\ \A name \in TokenNames(StripBlocks(text), "@usecode ") :
               IF name \in Keys(codeblocks')
               THEN /\ CountTokens(text', "@usecode ", name) = 0
                    /\ CountOccurrences(text', Lookup(codeblocks', name))
                          >= CountTokens(StripBlocks(text), "@usecode ", name)
               ELSE CountTokens(text', "@usecode ", name)
                       = CountTokens(StripBlocks(text), "@usecode ", name)
         /\ Keys(codeblocks') # {} =>
               /\ FindSym(text', "@codeblock ", 1) = 0
               /\ FindSym(text', "@endcodeblock", 1) = 0

\* C6: after the Codeblock Registry every usage site @usecode <name> of a
\* declared name is replaced by the stored snippet, every usage site of a
\* name never declared is still in the buffer, and no marker of a declared
\* block is left.
C6_UsageSitesByDeclaration == [][UsageSitesByDeclarationStep]_vars

(***************************************************************************)
(* C7.                                                                     *)
(***************************************************************************)
ItemOpen == {"<li>", "<li class=\"task-item\">"}

\* s without its list containers
RECURSIVE Unwrapped(_)
Unwrapped(s) ==
    IF s = <<>> THEN <<>>
    ELSE IF s[1] \in {"<ul>", "</ul>"} THEN Unwrapped(Tail(s))
    ELSE <<s[1]>> \o Unwrapped(Tail(s))

\* number of maximal runs of adjacent list items: an item opens a run
\* unless the item before it ends right before it or on the line before
ItemRuns(s) ==
    LET u == Unwrapped(s)
    IN CountFrom([i \in 1..Len(u) |->
                    /\ u[i] \in ItemOpen
                    /\ ~(i > 1 /\ u[i - 1] = "</li>")
                    /\ ~(i > 2 /\ u[i - 1] = NL /\ u[i - 2] = "</li>")], 1)

\* number of containers open at position i
Depth(s, i) ==
    CountOccurrences(Slice(s, 1, i - 1), <<"<ul>">>)
       - CountOccurrences(Slice(s, 1, i - 1), <<"</ul>">>)

\* C7: after the list rules every maximal run of adjacent list items is in
\* exactly one list container: one <ul> and one </ul> per run, and no item
\* outside a container.
C7_OneContainerPerRun ==
    pc = "links" =>
       /\ CountOccurrences(text, <<"<ul>">>) = ItemRuns(text)
       /\ CountOccurrences(text, <<"</ul>">>) = ItemRuns(text)
       /\ \A i \in 1..Len(text) : text[i] \in ItemOpen => Depth(text, i) = 1

(***************************************************************************)
(* C8.                                                                     *)
(***************************************************************************)
CommandOpen == "<pre><code class=\"command\">"

\* the texts the @command: rule embedded, in order
CommandTexts(s) ==
    LET opens == [i \in 1..Len(s) |->
                    IF s[i] = CommandOpen THEN LineEnd(s, i) ELSE 0]
        ms == Matches(opens, 1)
    IN [k \in DOMAIN ms |-> Slice(s, ms[k][1], ms[k][2])]

\* what a step has to satisfy for C8_CommandTextUntouched
CommandTextUntouchedStep ==
    pc \in {"code", "emphasis", "hr", "lists", "links", "media", "callouts",
               "alerts", "badges", "tables"} =>
         CommandTexts(text') = CommandTexts(text)

\* C8: no rule after the @command: rule re-matches what it produced: the
\* embedded text reaches the output unaltered by the inline-code, bold,
\* italic, link and list rules (and the rules after them).
C8_CommandTextUntouched == [][CommandTextUntouchedStep]_vars

(***************************************************************************)
(* C9.                                                                     *)
(***************************************************************************)
Ref(name) == <<"@">> \o name
\* position of key in the table
Position(d, key) == CHOOSE k \in DOMAIN d : d[k][1] = key

\* what a step has to satisfy for C9_ValueVerbatimInEitherOrder
ValueVerbatimInEitherOrderStep ==
    pc = "vars" =>
         \A A \in Keys(vars_dict'), B \in Keys(vars_dict') :
            (/\ A # B
             /\ Occurs(Lookup(vars_dict', A), Ref(B))
             /\ Occurs(StripVars(text), Ref(A)))
            => Occurs(text', Lookup(vars_dict', A))

\* C9 as claimed: for variables A and B of the table, the value of A
\* holding @B, the value of A stands verbatim where @A stood, in either
\* order of the two.
C9_ValueVerbatimInEitherOrder == [][ValueVerbatimInEitherOrderStep]_vars

\* what a step has to satisfy for C9_ValueVerbatimWhenLater
ValueVerbatimWhenLaterStep ==
    pc = "vars" =>
         \A A \in Keys(vars_dict'), B \in Keys(vars_dict') :
            (/\ A # B
             /\ Occurs(Lookup(vars_dict', A), Ref(B))
             /\ Occurs(StripVars(text), Ref(A)))
            => IF Position(vars_dict', B) < Position(vars_dict', A)
               THEN Occurs(text', Lookup(vars_dict', A))
               ELSE /\ Occurs(text', Replace(Lookup(vars_dict', A), Ref(B),
                                             Lookup(vars_dict', B)))
                    /\ ~Occurs(text', Lookup(vars_dict', A))

\* C9 amended: the value of A stands verbatim where @A stood when B comes
\* before A in the table; when A comes before B, the @B of the value is
\* replaced by the value of B.
C9_ValueVerbatimWhenLater == [][ValueVerbatimWhenLaterStep]_vars

\* Y is pre-seeded, X is declared with the value @Y and referred to: the
\* value is in the buffer verbatim
C9_Witness ==
    /\ pc = "if"
    /\ vars_dict = << <<<<"Y">>, <<"2">>>>, <<<<"X">>, <<"@", "Y">>>> >>
    /\ source = <<"@var ", "X", "=", "@", "Y", NL, "@", "X">>
    /\ text = <<NL, "@", "Y">>

(***************************************************************************)
(* C10.                                                                    *)
(***************************************************************************)
\* the bodies of the blocks of a non-nested s that are dropped for plat
RECURSIVE DroppedBodies(_, _)
DroppedBodies(s, plat) ==
    LET i == FindSym(s, "@if ", 1)
        n == FindSym(s, NL, i + 1)
        e == FindSym(s, "@endif", 1)
        kept == /\ s[i + 1] = "PLATFORM"
                /\ plat # None
                /\ plat = Slice(s, i + 3, n - 1)
    IN IF i = 0 THEN {}
       ELSE (IF kept THEN {} ELSE {Slice(s, n + 1, e - 1)})
            \cup DroppedBodies(Slice(s, e + 1, Len(s)), plat)

\* the declarations <<NAME, VALUE>> of s
Declarations(s) ==
    LET ms == Matches(VarEnds(s), 1)
    IN {<<Slice(s, ms[k][1] + 1, WordEnd(s, ms[k][1] + 1)),
          Strip(Slice(s, WordEnd(s, ms[k][1] + 1) + 2, ms[k][2]))>> :
           k \in DOMAIN ms}

\* C10: a declaration @var NAME=VALUE and a @title: line inside an @if
\* block that is dropped take effect all the same: the variable is in the
\* table, VALUE stands at every @NAME outside the block, and the title is
\* the one of the line.
C10_DroppedBlockStillDeclares ==
    (/\ mode = "api" /\ pc = "codeblock"
     /\ NonNested(source) /\ ~HasInclude(source)) =>
       \A body \in DroppedBodies(source, platform) :
          /\ \A decl \in Declarations(body) :
                /\ decl[1] \in Keys(vars_dict)
                /\ Lookup(vars_dict, decl[1]) = decl[2]
                /\ CountTokens(text, "@", decl[1]) = 0
                /\ CountOccurrences(text, decl[2])
                      >= CountTokens(KeptBodies(source, None), "@", decl[1])
          /\ Search(TitleEnds(body)) # <<>> => title = ExtractTitle(body)

====
